---------------------------- MODULE Spec2Model ----------------------------
(***************************************************************************)
(* Model of neural_network/multilayer_perceptron.go: the MLPRegressor      *)
(* driver (NewMLPRegressor, NewMLPClassifier, Fit, Predict), its Layer     *)
(* type (NewLayer, Layer.Init) and the NaN guard panicIfNaN.               *)
(*                                                                         *)
(* float64 values are modelled on a small integer grid with IEEE-754       *)
(* special values: the finite values are -MaxF..MaxF, a result beyond      *)
(* them overflows to +Inf / -Inf, and Inf - Inf and 0 * Inf are NaN.       *)
(* A *mat.Dense is a sequence of rows; the nil pointer is the empty        *)
(* sequence.  Layers are indexed 1..Len(Layers) here, 0..len-1 in Go.      *)
(***************************************************************************)
EXTENDS Integers, Sequences, FiniteSets, TLC

\* ------------------------------------------------------------- bounds
MaxF == 3            \* largest finite float of the grid
MaxSamples == 2      \* rows of X and Y
MaxWidth == 2        \* columns of X, columns of Y
MaxHidden == 1       \* width of the hidden layer, when there is one
MaxEpochs == 2       \* largest Epochs a caller configures
MaxFitCalls == 2     \* Fit calls a caller makes in one run
RngMod == 5          \* period of the modelled math/rand source

\* --------------------------------------------------- program constants
DefaultEpochs == 100

\* ------------------------------------------------------------ float64
PInf == MaxF + 1
NInf == 0 - (MaxF + 1)
NaN == MaxF + 2
Floats == (NInf..PInf) \cup {NaN}

IsNaN(v) == v = NaN
IsInf(v) == v = PInf \/ v = NInf
IsFinite(v) == ~IsNaN(v) /\ ~IsInf(v)

Round(n) == IF n > MaxF THEN PInf ELSE IF n < 0 - MaxF THEN NInf ELSE n

FNeg(a) == IF IsNaN(a) THEN NaN ELSE 0 - a

FAdd(a, b) ==
    IF IsNaN(a) \/ IsNaN(b) THEN NaN
    ELSE IF IsInf(a) /\ IsInf(b) THEN (IF a = b THEN a ELSE NaN)
    ELSE IF IsInf(a) THEN a
    ELSE IF IsInf(b) THEN b
    ELSE Round(a + b)

FSub(a, b) == FAdd(a, FNeg(b))

FSign(a) == IF a > 0 THEN 1 ELSE IF a < 0 THEN 0 - 1 ELSE 0

FMul(a, b) ==
    IF IsNaN(a) \/ IsNaN(b) THEN NaN
    ELSE IF IsInf(a) \/ IsInf(b)
         THEN (IF a = 0 \/ b = 0 THEN NaN
               ELSE IF FSign(a) * FSign(b) > 0 THEN PInf ELSE NInf)
    ELSE Round(a * b)

\* ----------------------------------------------------------- matrices
Nil == << >>

Rows(M) == Len(M)
Cols(M) == Len(M[1])

NewDense(r, c) == [i \in 1..r |-> [j \in 1..c |-> 0]]

SameDims(A, B) == Rows(A) = Rows(B) /\ Cols(A) = Cols(B)

Elements(M) == {M[i][j] : i \in 1..Rows(M), j \in 1..Cols(M)}

RECURSIVE DotFrom(_, _, _, _, _)
\* sum over k' <= k of A[i][k'] * B[k'][j], accumulated left to right
DotFrom(A, B, i, j, k) ==
    IF k = 0 THEN 0
    ELSE FAdd(DotFrom(A, B, i, j, k - 1), FMul(A[i][k], B[k][j]))

MatMul(A, B) ==
    [i \in 1..Rows(A) |-> [j \in 1..Cols(B) |-> DotFrom(A, B, i, j, Cols(A))]]

MatAdd(A, B) == [i \in 1..Rows(A) |-> [j \in 1..Cols(A) |-> FAdd(A[i][j], B[i][j])]]
MatSub(A, B) == [i \in 1..Rows(A) |-> [j \in 1..Cols(A) |-> FSub(A[i][j], B[i][j])]]
MatMulElem(A, B) == [i \in 1..Rows(A) |-> [j \in 1..Cols(A) |-> FMul(A[i][j], B[i][j])]]
Transpose(A) == [j \in 1..Cols(A) |-> [i \in 1..Rows(A) |-> A[i][j]]]

\* lazy views used by Fit and Predict
onesAddedMat(M) == [i \in 1..Rows(M) |-> <<1>> \o M[i]]
firstColumnRemovedMat(M) == [i \in 1..Rows(M) |-> Tail(M[i])]

\* ------------------------------------------------------- collaborators
\* lm.Activations: name -> Activation; an unknown name yields the nil interface
Activations(name) ==
    IF name \in {"identity", "logistic", "relu"} THEN name ELSE "nil"

\* base.Solvers: name -> OptimCreator; an unknown name yields a nil func
Solvers(name) == IF name \in {"adam"} THEN name ELSE "nil"

\* lm.LossFunctions: name -> Loss; an unknown name yields a nil func
LossFunctions(name) ==
    IF name \in {"square", "log", "cross-entropy"} THEN name ELSE "nil"

\* Activation.F
ActF(act, v) ==
    IF IsNaN(v) THEN NaN
    ELSE IF act = "relu" THEN (IF v < 0 THEN 0 ELSE v)
    ELSE IF act = "logistic" THEN (IF v >= 1 THEN 1 ELSE 0)
    ELSE v

\* Activation.Fprime, in terms of the forward output
ActFprime(act, y) ==
    IF IsNaN(y) THEN NaN
    ELSE IF act = "relu" THEN (IF y > 0 THEN 1 ELSE 0)
    ELSE IF act = "logistic" THEN FMul(y, FSub(1, y))
    ELSE 1

appliedMat(M, act) == [i \in 1..Rows(M) |-> [j \in 1..Cols(M) |-> ActF(act, M[i][j])]]
appliedMatPrime(M, act) ==
    [i \in 1..Rows(M) |-> [j \in 1..Cols(M) |-> ActFprime(act, M[i][j])]]

RECURSIVE SumSquares(_, _)
\* sum of the squares of the first n elements (row-major) of M
SumSquares(M, n) ==
    IF n = 0 THEN 0
    ELSE LET i == ((n - 1) \div Cols(M)) + 1
             j == ((n - 1) % Cols(M)) + 1
         IN FAdd(SumSquares(M, n - 1), FMul(M[i][j], M[i][j]))

\* Loss: the scalar loss of a layer
LossJ(Ydiff) == SumSquares(Ydiff, Rows(Ydiff) * Cols(Ydiff))

\* Loss: the gradient it fills, [1 X]^T * Ydiff
LossGrad(X1, Ydiff) == MatMul(Transpose(X1), Ydiff)

\* OptimCreator: a fresh per-layer optimizer instance
NewOptimizer == [t |-> 0]

\* Optimizer.GetUpdate: a step of bounded size against the gradient
GetUpdate(Grad) ==
    [i \in 1..Rows(Grad) |-> [j \in 1..Cols(Grad) |->
        IF IsNaN(Grad[i][j]) THEN NaN ELSE 0 - FSign(Grad[i][j])]]

\* math/rand: the global source is a deterministic generator with state
RandNext(s) == (s + 1) % RngMod
\* 0.01 * rand.Float64(): a small non-negative weight
RandFloat(s) == s % 2

RECURSIVE RandSkip(_, _)
RandSkip(s, k) == IF k = 0 THEN s ELSE RandSkip(RandNext(s), k - 1)

\* rand.Intn(k)
RandIntn(s, k) == s % k

RECURSIVE ShufflePerm(_, _, _)
\* base.DenseShuffle: the row permutation it draws, by swapping row i with a
\* row drawn among the first i, for i from the last row down to the second
ShufflePerm(p, i, s) ==
    IF i <= 1 THEN p
    ELSE LET j == RandIntn(s, i) + 1
         IN ShufflePerm([p EXCEPT ![i] = p[j], ![j] = p[i]], i - 1, RandNext(s))

\* base.DenseShuffle: the same permutation is applied to the rows of X and of Y
DenseShuffle(M, s) == LET p == ShufflePerm([i \in 1..Rows(M) |-> i], Rows(M), s)
                      IN [i \in 1..Rows(M) |-> M[p[i]]]

\* the source's state after DenseShuffle of n rows
DenseShuffleRng(n, s) == RandSkip(s, IF n > 1 THEN n - 1 ELSE 0)

\* -------------------------------------------------------------- Layer
\* NewLayer: Theta is inputs x outputs, drawn element by element from the source
NewLayer(inputs, outputs, activation, optimizer, s) ==
    [Activation |-> activation,
     Theta |-> [i \in 1..inputs |-> [j \in 1..outputs |->
                  RandFloat(RandSkip(s, (i - 1) * outputs + (j - 1)))]],
     Ytrue |-> Nil, Ypred |-> Nil, Ydiff |-> Nil, Grad |-> Nil, Update |-> Nil,
     Optimizer |-> optimizer]

\* the source's state after NewLayer(inputs, outputs, ...)
NewLayerRng(inputs, outputs, s) == RandSkip(s, inputs * outputs)

\* Layer.Init
LayerInit(L, samples, inputs) ==
    LET outputs == Cols(L.Theta)
    IN [L EXCEPT !.Ypred = NewDense(samples, outputs),
                 !.Ytrue = NewDense(samples, outputs),
                 !.Ydiff = NewDense(samples, outputs),
                 !.Grad = NewDense(1 + inputs, outputs),
                 !.Update = NewDense(1 + inputs, outputs)]

\* ------------------------------------------------------- MLPRegressor
NewMLPRegressor(hiddenLayerSizes, activation, solver) ==
    [Optimizer |-> Solvers(IF solver = "" THEN "adam" ELSE solver),
     LossName |-> "",
     Activation |-> Activations(IF activation = "" THEN "relu" ELSE activation),
     HiddenLayerSizes |-> hiddenLayerSizes,
     Layers |-> << >>,
     Epochs |-> 0,
     Loss |-> "square",
     JFirst |-> 0,
     J |-> 0]

NewMLPClassifier(hiddenLayerSizes, activation, solver) ==
    [NewMLPRegressor(hiddenLayerSizes, activation, solver) EXCEPT !.Loss = "log"]

RECURSIVE HiddenLayers(_, _, _, _, _)
\* Fit, the loop over HiddenLayerSizes from index k on: [layers, prev, rng]
HiddenLayers(r, k, prevOutputs, layers, s) ==
    IF k > Len(r.HiddenLayerSizes) THEN [layers |-> layers, prev |-> prevOutputs, rng |-> s]
    ELSE LET outputs == r.HiddenLayerSizes[k]
         IN HiddenLayers(r, k + 1, outputs,
                Append(layers, NewLayer(1 + prevOutputs, outputs, r.Activation, NewOptimizer, s)),
                NewLayerRng(1 + prevOutputs, outputs, s))

\* Fit: the activation of the output layer
LastActivation(r) ==
    IF r.LossName = "cross-entropy" \/ r.LossName = "log" THEN "logistic" ELSE r.Activation

CreateLayersNoBias(r, nFeatures, nOutputs, s) ==
    LET h == HiddenLayers(r, 1, nFeatures, << >>, s)
    IN [layers |-> Append(h.layers,
                     NewLayer(h.prev, nOutputs, LastActivation(r), NewOptimizer, h.rng)),
        rng |-> NewLayerRng(h.prev, nOutputs, h.rng)]

\* Fit: the layer list as created from HiddenLayerSizes and the data's widths
CreateLayers(r, nFeatures, nOutputs, s) ==
    LET h == HiddenLayers(r, 1, nFeatures, << >>, s)
    IN [layers |-> Append(h.layers,
                     NewLayer(1 + h.prev, nOutputs, LastActivation(r), NewOptimizer, h.rng)),
        rng |-> NewLayerRng(1 + h.prev, nOutputs, h.rng)]

\* Fit: adjust size of first layer to X features
AdjustFirst(c, nFeatures) ==
    IF Rows(c.layers[1].Theta) # nFeatures + 1
    THEN [layers |-> [c.layers EXCEPT ![1] =
                        NewLayer(1 + nFeatures, Cols(c.layers[1].Theta),
                                 c.layers[1].Activation, NewOptimizer, c.rng)],
          rng |-> NewLayerRng(1 + nFeatures, Cols(c.layers[1].Theta), c.rng)]
    ELSE c

\* Fit: adjust size of output layer to Y outputs
AdjustLast(c, nOutputs) ==
    LET outputLayer == Len(c.layers)
        r2 == Rows(c.layers[outputLayer].Theta)
    IN IF nOutputs # Cols(c.layers[outputLayer].Theta)
       THEN [layers |-> [c.layers EXCEPT ![outputLayer] =
                           NewLayer(r2, nOutputs, c.layers[1].Activation, NewOptimizer, c.rng)],
             rng |-> NewLayerRng(r2, nOutputs, c.rng)]
       ELSE c

EffectiveEpochsNegative(e) == IF e < 0 THEN DefaultEpochs ELSE e

\* Fit: the epoch count the loop runs to
EffectiveEpochs(e) == IF e <= 0 THEN DefaultEpochs ELSE e

\* Fit up to the epoch loop: [regr, rng, err]
FitSetup(r, Xm, Ym, s) ==
    IF r.Optimizer = "nil"
    THEN [regr |-> [r EXCEPT !.Layers = << >>], rng |-> s, err |-> "nil Optimizer"]
    ELSE LET c == AdjustLast(AdjustFirst(CreateLayers(r, Cols(Xm), Cols(Ym), s), Cols(Xm)),
                             Cols(Ym))
         IN [regr |-> [r EXCEPT !.Layers = c.layers, !.Epochs = EffectiveEpochs(r.Epochs)],
             rng |-> c.rng, err |-> ""]

panicIfInf(M) == \E v \in Elements(M) : IsInf(v)

\* the Apply of panicIfNaN over a buffer: TRUE when it panics
panicIfNaN(M) == \E v \in Elements(M) : IsNaN(v)

EnsureInitAlways(L, Xl) == LayerInit(L, Rows(Xl), Cols(Xl))

\* Predict: the layer's buffers are allocated when it has none
EnsureInit(L, Xl) == IF L.Ypred = Nil THEN LayerInit(L, Rows(Xl), Cols(Xl)) ELSE L

RECURSIVE Forward(_, _, _)
\* Predict, the loop over the layers from layer k on: [layers, err]
Forward(layers, Xm, k) ==
    IF k > Len(layers) THEN [layers |-> layers, err |-> ""]
    ELSE
      LET Xl == IF k = 1 THEN Xm ELSE layers[k - 1].Ypred
          L0 == EnsureInit(layers[k], Xl)
          shapeOk == /\ 1 + Cols(Xl) = Rows(L0.Theta)
                     /\ Rows(L0.Ypred) = Rows(Xl)
                     /\ Cols(L0.Ypred) = Cols(L0.Theta)
          mul == MatMul(onesAddedMat(Xl), L0.Theta)
          act == appliedMat(mul, L0.Activation)
      IN IF ~shapeOk
         THEN [layers |-> [layers EXCEPT ![k] = L0], err |-> "shape"]
         ELSE IF L0.Activation = "nil"
         THEN [layers |-> [layers EXCEPT ![k] = [L0 EXCEPT !.Ypred = mul]],
               err |-> "nil Activation"]
         ELSE IF panicIfNaN(act)
         THEN [layers |-> [layers EXCEPT ![k] = [L0 EXCEPT !.Ypred = act]], err |-> "NaN"]
         ELSE Forward([layers EXCEPT ![k] = [L0 EXCEPT !.Ypred = act]], Xm, k + 1)

\* Fit, one iteration of the backward loop for layer k: [regr, err]
BackwardLayer(r, Xm, Ym, k, ep) ==
    LET outputLayer == Len(r.Layers)
        L == r.Layers[k]
        Xl == IF k = 1 THEN Xm ELSE r.Layers[k - 1].Ypred
        nextLayer == r.Layers[k + 1]
        shapeOk == IF k = outputLayer THEN SameDims(L.Ypred, Ym)
                   ELSE /\ Cols(nextLayer.Ydiff) = Cols(nextLayer.Theta)
                        /\ Rows(nextLayer.Ydiff) = Rows(L.Ydiff)
                        /\ Rows(nextLayer.Theta) - 1 = Cols(L.Ydiff)
        Ydiff == IF k = outputLayer THEN MatSub(L.Ypred, Ym)
                 ELSE MatMulElem(
                        MatMul(nextLayer.Ydiff,
                               firstColumnRemovedMat(Transpose(nextLayer.Theta))),
                        appliedMatPrime(L.Ypred, L.Activation))
        Ytrue == IF k = outputLayer THEN Ym ELSE MatSub(L.Ypred, Ydiff)
        L1 == [L EXCEPT !.Ytrue = Ytrue, !.Ydiff = Ydiff]
        J == LossJ(Ydiff)
        Grad == LossGrad(onesAddedMat(Xl), Ydiff)
        Update == GetUpdate(Grad)
        L2 == [L1 EXCEPT !.Grad = Grad, !.Update = Update,
                         !.Optimizer = [t |-> L.Optimizer.t + 1],
                         !.Theta = MatAdd(L.Theta, Update)]
    IN IF ~shapeOk THEN [regr |-> r, err |-> "shape"]
       ELSE IF LossFunctions(r.Loss) = "nil"
       THEN [regr |-> [r EXCEPT !.Layers[k] = L1], err |-> "nil Loss"]
       ELSE [regr |-> [r EXCEPT !.Layers[k] = L2,
                                !.J = IF k = outputLayer THEN J ELSE @,
                                !.JFirst = IF k = outputLayer /\ ep = 1 THEN J ELSE @],
             err |-> ""]

\* -------------------------------------------------------------- inputs
\* the caller's matrices: row i of a finite matrix holds i - 1, so that rows differ
DataX(n, f, xv) == [i \in 1..n |-> [j \in 1..f |-> IF xv = 0 THEN i - 1 ELSE xv]]
DataY(n, o) == [i \in 1..n |-> [j \in 1..o |-> i - 1]]

XFills == {0, PInf}
Constructors == {"NewMLPRegressor", "NewMLPClassifier"}
HiddenChoices == {<< >>, <<MaxHidden>>}
SampleCounts == {1, MaxSamples}
Widths == {1, MaxWidth}
EpochChoices == {1, MaxEpochs}
LossNames == {"", "log"}
\* the name a caller gets wrong, if any
Unknown == {"none", "activation", "solver", "loss"}

\* the regressors a caller can configure: a constructor call, then fields set
Configs(epochs) ==
    {[(IF ctor = "NewMLPRegressor"
       THEN NewMLPRegressor(h, IF bad = "activation" THEN "bogus" ELSE "",
                               IF bad = "solver" THEN "bogus" ELSE "")
       ELSE NewMLPClassifier(h, IF bad = "activation" THEN "bogus" ELSE "",
                                IF bad = "solver" THEN "bogus" ELSE ""))
      EXCEPT !.Epochs = e, !.LossName = ln,
             !.Loss = IF bad = "loss" THEN "bogus" ELSE @] :
        ctor \in Constructors, h \in HiddenChoices, bad \in Unknown,
        e \in epochs, ln \in LossNames}

\* --------------------------------------------------------------- state
VARIABLES
    regr,       \* the MLPRegressor
    train,      \* the caller's training set: its row count and the fill of X
    X, Y,       \* the arguments of the running (or last) call: Fit(X, Y),
    Yout,       \*   Predict(X, Yout); Nil for one the call does not take
    rng,        \* state of the math/rand source
    pc,         \* "idle", "epoch" (head of Fit's loop), "backward", "panic"
    epoch, l,   \* Fit's loop variables (l is 1-based)
    err,        \* the panic raised, "" when none
    call,       \* the caller's running (or last) call: "none", "Fit", "Predict"
    fitsLeft,   \* Fit calls the caller still makes
    epochs0,    \* regr.Epochs as it was when the running Fit was called
    prevTheta,  \* the weights the layers held when the running Fit was called
    nForward, nBackward,  \* forward passes and backward steps of the running Fit
    visited,    \* layers the backward loop has processed in this epoch
    fwdTheta,   \* the weights this epoch's forward pass used
    firstJ      \* the loss the output layer computed in epoch 0 of the running Fit

vars == <<regr, train, X, Y, Yout, rng, pc, epoch, l, err, call, fitsLeft, epochs0,
          prevTheta, nForward, nBackward, visited, fwdTheta, firstJ>>

Thetas(layers) == [k \in 1..Len(layers) |-> layers[k].Theta]

InitWith(epochs, fits) ==
    /\ regr \in Configs(epochs)
    /\ train \in [n : SampleCounts, xv : XFills]
    /\ X = Nil /\ Y = Nil /\ Yout = Nil
    /\ rng \in 0..(RngMod - 1)
    /\ pc = "idle" /\ epoch = 0 /\ l = 0 /\ err = ""
    /\ call = "none" /\ fitsLeft = fits
    /\ epochs0 = 0 /\ prevTheta = << >>
    /\ nForward = 0 /\ nBackward = 0 /\ visited = << >>
    /\ fwdTheta = << >> /\ firstJ = << >>

\* a caller that configures Epochs and calls Fit up to MaxFitCalls times
Init == InitWith(EpochChoices, MaxFitCalls)

\* a caller that may leave Epochs unset and calls Fit once
InitDefault == InitWith({0} \cup EpochChoices, 1)

\* Fit(X, Y), up to the head of the epoch loop
Fit ==
    /\ pc = "idle" /\ fitsLeft > 0
    /\ \E f \in Widths, o \in Widths :
          \E s \in {FitSetup(regr, DataX(train.n, f, train.xv), DataY(train.n, o), rng)} :
             /\ X' = DataX(train.n, f, train.xv) /\ Y' = DataY(train.n, o)
             /\ regr' = s.regr /\ rng' = s.rng /\ err' = s.err
             /\ pc' = IF s.err = "" THEN "epoch" ELSE "panic"
    /\ epoch' = 0 /\ l' = 0
    /\ call' = "Fit" /\ fitsLeft' = fitsLeft - 1
    /\ epochs0' = regr.Epochs /\ prevTheta' = Thetas(regr.Layers)
    /\ nForward' = 0 /\ nBackward' = 0 /\ visited' = << >>
    /\ fwdTheta' = << >> /\ firstJ' = << >>
    /\ Yout' = Nil
    /\ UNCHANGED train

\* one pass of the epoch loop up to the backward loop: DenseShuffle, then Predict(X, nil)
Epoch ==
    /\ pc = "epoch" /\ epoch < regr.Epochs
    /\ \E fw \in {Forward(regr.Layers, DenseShuffle(X, rng), 1)} :
          /\ X' = DenseShuffle(X, rng) /\ Y' = DenseShuffle(Y, rng)
          /\ rng' = DenseShuffleRng(Rows(X), rng)
          /\ regr' = [regr EXCEPT !.Layers = fw.layers]
          /\ err' = fw.err
          /\ pc' = IF fw.err = "" THEN "backward" ELSE "panic"
    /\ l' = Len(regr.Layers)
    /\ nForward' = nForward + 1
    /\ visited' = << >>
    /\ fwdTheta' = Thetas(regr.Layers)
    /\ UNCHANGED <<train, Yout, epoch, call, fitsLeft, epochs0, prevTheta, nBackward, firstJ>>

\* one iteration of the backward loop, for layer l
Backward ==
    /\ pc = "backward"
    /\ \E b \in {BackwardLayer(regr, X, Y, l, epoch)} :
          /\ regr' = b.regr /\ err' = b.err
          /\ pc' = IF b.err # "" THEN "panic" ELSE IF l = 1 THEN "epoch" ELSE "backward"
          /\ l' = IF b.err = "" THEN l - 1 ELSE l
          /\ epoch' = IF b.err = "" /\ l = 1 THEN epoch + 1 ELSE epoch
          /\ nBackward' = IF b.err = "" THEN nBackward + 1 ELSE nBackward
          /\ visited' = IF b.err = "" THEN Append(visited, l) ELSE visited
          /\ firstJ' = IF b.err = "" /\ l = Len(regr.Layers) /\ epoch = 0
                       THEN <<b.regr.J>> ELSE firstJ
    /\ UNCHANGED <<train, X, Y, Yout, rng, call, fitsLeft, epochs0, prevTheta, nForward,
                   fwdTheta>>

\* Fit returns once the epoch loop is over
FitReturn ==
    /\ pc = "epoch" /\ epoch >= regr.Epochs
    /\ pc' = "idle"
    /\ UNCHANGED <<regr, train, X, Y, Yout, rng, epoch, l, err, call, fitsLeft, epochs0,
                   prevTheta, nForward, nBackward, visited, fwdTheta, firstJ>>

\* a caller's Predict(X, Y) with a non-nil Y, on finite data of the fitted width
Predict ==
    /\ pc = "idle"
    /\ \E n \in SampleCounts :
          \E Xm \in {DataX(n, IF Len(regr.Layers) = 0 THEN 1
                                ELSE Rows(regr.Layers[1].Theta) - 1, 0)} :
          \E fw \in {Forward(regr.Layers, Xm, 1)} :
          \E e \in {IF fw.err = "" /\ Len(regr.Layers) = 0 THEN "index" ELSE fw.err} :
             /\ X' = Xm
             /\ regr' = [regr EXCEPT !.Layers = fw.layers]
             /\ err' = e
             /\ pc' = IF e = "" THEN "idle" ELSE "panic"
             /\ Yout' = IF e = "" THEN fw.layers[Len(fw.layers)].Ypred ELSE Yout
    /\ call' = "Predict"
    /\ Y' = Nil
    /\ UNCHANGED <<train, rng, epoch, l, fitsLeft, epochs0, prevTheta, nForward, nBackward,
                   visited, fwdTheta, firstJ>>

Next == Fit \/ Epoch \/ Backward \/ FitReturn \/ Predict

Spec == Init /\ [][Next]_vars

SpecDefault == InitDefault /\ [][Next]_vars

\* ================================================================ claims

OutputLayer == Len(regr.Layers)

\* the running (or last) call is a Fit that has ended, by returning or by a panic
FitEnded == call = "Fit" /\ pc \in {"idle", "panic"}
FitRunning == call = "Fit" /\ pc \in {"epoch", "backward"}

\* C1: in and after every Fit call the first layer has 1 + cols(X) rows, the
\* last layer has cols(Y) columns, every layer has one row more than the layer
\* before it has columns, and Fit never panics on a shape; this also holds
\* for a call whose widths differ from those of the call before it.
C1_LayerShapes ==
    call = "Fit" =>
        /\ err # "shape"
        /\ err = "" => Len(regr.Layers) = Len(regr.HiddenLayerSizes) + 1
        /\ regr.Layers # << >> =>
              /\ Rows(regr.Layers[1].Theta) = 1 + Cols(X)
              /\ Cols(regr.Layers[OutputLayer].Theta) = Cols(Y)
              /\ \A i \in 1..(OutputLayer - 1) :
                    Rows(regr.Layers[i + 1].Theta) = 1 + Cols(regr.Layers[i].Theta)

\* a second Fit has returned, on data whose feature count and target width both
\* differ from those the layers had before the call, with a hidden layer
C1_Witness ==
    /\ call = "Fit" /\ pc = "idle" /\ OutputLayer = 2
    /\ prevTheta # << >>
    /\ Rows(prevTheta[1]) # 1 + Cols(X)
    /\ Cols(prevTheta[Len(prevTheta)]) # Cols(Y)

\* C2: a second Fit on data of the same widths continues from the weights the
\* layers held at the end of the first call: at the head of its first epoch
\* every layer holds the weights it held when Fit was called.  (MLPRegressor
\* has no warm-start field; no configuration of it keeps the layers.)
C2_WarmStartKeepsWeights ==
    (/\ call = "Fit" /\ pc = "epoch" /\ epoch = 0
     /\ prevTheta # << >>
     /\ Len(prevTheta) = OutputLayer
     /\ Rows(prevTheta[1]) = 1 + Cols(X)
     /\ Cols(prevTheta[Len(prevTheta)]) = Cols(Y))
    => Thetas(regr.Layers) = prevTheta

\* C3: after Fit the output layer's activation is the logistic one when the
\* configured loss is "log" or "cross-entropy", and the configured activation
\* for any other loss.
C3_OutputActivation ==
    (call = "Fit" /\ regr.Layers # << >>) =>
        regr.Layers[OutputLayer].Activation =
            IF regr.Loss \in {"log", "cross-entropy"} THEN "logistic" ELSE regr.Activation

\* the epoch count Fit is to run for the Epochs the caller configured
ConfiguredEpochs == IF epochs0 > 0 THEN epochs0 ELSE DefaultEpochs

\* a Fit that has returned has run every epoch, with one forward pass per epoch
\* and one backward step per layer and epoch
RanAllEpochs ==
    /\ epoch = ConfiguredEpochs
    /\ nForward = ConfiguredEpochs
    /\ nBackward = ConfiguredEpochs * OutputLayer

\* within an epoch the forward pass comes first, then the layers from the
\* output layer down
EpochShape ==
    /\ pc = "epoch" => nForward = epoch /\ nBackward = epoch * OutputLayer
    /\ pc = "backward" =>
          /\ nForward = epoch + 1
          /\ nBackward = epoch * OutputLayer + Len(visited)
          /\ Len(visited) = OutputLayer - l
          /\ \A i \in 1..Len(visited) : visited[i] = OutputLayer + 1 - i

\* C4 as stated: every Fit call ends having run exactly Epochs epochs (100 when
\* Epochs <= 0).
C4_FitRunsAllEpochs == FitEnded => RanAllEpochs

\* the statements a running Fit has executed: forward passes and backward steps
Position == nForward + nBackward

\* C4, amended: Fit always terminates; it either panics (on a NaN prediction of
\* a forward pass, or on the nil strategy of an unknown name) or returns after
\* exactly Epochs epochs, 100 when Epochs <= 0; every epoch it completes runs
\* one forward pass and then one backward step per layer.  Termination: a
\* running Fit is at a statement of its loops, every step it takes ends the
\* call or moves it one statement on, and no more than Epochs passes and
\* Epochs backward steps per layer are ever executed.
C4_FitTerminates ==
    /\ [](call = "Fit" =>
            /\ EpochShape
            /\ pc = "idle" => RanAllEpochs
            /\ pc = "panic" => err \in {"NaN", "nil Optimizer", "nil Activation", "nil Loss"}
            /\ pc = "epoch" => epoch \in 0..ConfiguredEpochs
            /\ pc = "backward" => epoch \in 0..(ConfiguredEpochs - 1) /\ l \in 1..OutputLayer)
    /\ [][FitRunning => (FitEnded' \/ (FitRunning' /\ Position' = Position + 1))]_vars

\* a Fit called with Epochs unset has returned after 100 epochs of a network
\* with a hidden layer
C4_Witness ==
    /\ call = "Fit" /\ pc = "idle" /\ epochs0 = 0
    /\ epoch = DefaultEpochs /\ OutputLayer = 2

\* C5: once the output layer has computed its loss in the first epoch of a Fit
\* call, JFirst is that loss, for the rest of the call and after it.
C5_JFirstIsFirstLoss ==
    (call = "Fit" /\ firstJ # << >>) => regr.JFirst = firstJ[1]

NaNLayers ==
    {k \in 1..OutputLayer :
        regr.Layers[k].Ypred # Nil /\ \E v \in Elements(regr.Layers[k].Ypred) : IsNaN(v)}

UnknownName ==
    regr.Optimizer = "nil" \/ regr.Activation = "nil" \/ LossFunctions(regr.Loss) = "nil"

\* C7: a network configured with an unknown name runs no forward pass and no
\* backward step: the error is raised before the first epoch.
C7_UnknownNameRunsNothing ==
    UnknownName => nForward = 0 /\ nBackward = 0

\* C8: Fit permutes the rows of X and Y only when shuffling is enabled;
\* otherwise the caller's X and Y keep their row order through all epochs.
\* (MLPRegressor has no shuffle field, so shuffling is never enabled.)
C8_RowOrderKept ==
    call = "Fit" =>
        /\ X = DataX(train.n, Cols(X), train.xv)
        /\ Y = DataY(train.n, Cols(Y))

\* a step of a caller's Predict
PredictStep == pc = "idle" /\ call' = "Predict"

\* C9: a caller's Predict leaves every layer's Theta, Grad, Update and
\* Optimizer as they were; when it returns, its output has one row per input
\* row and the output layer's width, and a Predict that follows a Predict with
\* the same input returns the same output.
C9_PredictIsPure ==
    [][PredictStep =>
         /\ Len(regr'.Layers) = Len(regr.Layers)
         /\ \A k \in 1..Len(regr.Layers) :
               /\ regr'.Layers[k].Theta = regr.Layers[k].Theta
               /\ regr'.Layers[k].Grad = regr.Layers[k].Grad
               /\ regr'.Layers[k].Update = regr.Layers[k].Update
               /\ regr'.Layers[k].Optimizer = regr.Layers[k].Optimizer
         /\ pc' = "idle" =>
               /\ Rows(Yout') = Rows(X')
               /\ Cols(Yout') = Cols(regr.Layers[Len(regr.Layers)].Theta)
               /\ (call = "Predict" /\ X' = X) => Yout' = Yout]_vars

\* a Predict has returned the predictions of a fitted network with a hidden layer
C9_Witness ==
    /\ call = "Predict" /\ pc = "idle" /\ OutputLayer = 2
    /\ Yout # Nil /\ Rows(Yout) = MaxSamples

\* C10: the backward loop goes from the output layer down, and when the step of
\* layer l is about to read layer l+1's diff and weights, layer l+1's step has
\* run in this epoch and layer l+1's weights are still those this epoch's
\* forward pass used.
C10_NextWeightsPreUpdate ==
    (pc = "backward" /\ l < OutputLayer) =>
        /\ visited[Len(visited)] = l + 1
        /\ regr.Layers[l + 1].Theta = fwdTheta[l + 1]

\* C11: no call panics on a shape, so a Predict on a row count other than that
\* of the Fit before it succeeds, and after every Fit or Predict that returned
\* each layer's Ypred, Ytrue and Ydiff have as many rows as the call's input
\* and the layer's output width, and its Grad and Update have the shape of its
\* Theta, (1 + inputs, outputs).
C11_BufferShapes ==
    /\ err # "shape"
    /\ (pc = "idle" /\ call # "none") =>
          \A k \in 1..OutputLayer :
             LET L == regr.Layers[k]
             IN /\ L.Ypred # Nil
                /\ \A B \in {L.Ypred, L.Ytrue, L.Ydiff} :
                      Rows(B) = Rows(X) /\ Cols(B) = Cols(L.Theta)
                /\ \A B \in {L.Grad, L.Update} : SameDims(B, L.Theta)

============================================================================
